---- MODULE Spec2Model ----
(***************************************************************************)
(* Verification model of the tower middleware crates:                      *)
(*   tower-in-flight-limit (InFlightLimit: the admission gate),            *)
(*   tower-rate-limit      (RateLimit: the windowed rate limiter),         *)
(*   tower-timeout         (ResponseFuture: the deadline race),            *)
(*   tower-watch           (WatchService: the dynamic rebinder).           *)
(* Each crate is an independent state machine with its own specification   *)
(* (SpecGate, SpecRate, SpecTimeout, SpecWatch); the variables of the      *)
(* other crates stay at their initial values.                              *)
(***************************************************************************)
EXTENDS Integers, Sequences, FiniteSets, TLC

(***************************************************************************)
(* Bounds of the model.                                                    *)
(***************************************************************************)
\* service instances (the original and its clones), one driving task each
NumInst == 2
\* response futures that can be created in one behaviour
MaxFut == 2
\* the gate's `max` is drawn from 0..MaxCap at construction
MaxCap == 2
\* Rate::new is called with num in 0..MaxNum and per in 0..MaxPer (clock ticks)
MaxNum == 2
MaxPer == 2
\* the clocks of the rate limiter and of the timeout run from 0 to MaxTime
MaxTime == 5
\* a Timeout's duration is drawn from 0..MaxTimeout (clock ticks)
MaxTimeout == 2
\* configuration values are drawn from 1..MaxVal, and the Store publishes at
\* most MaxStores of them
MaxVal == 2
MaxStores == 3

VARIABLES
    \* ---- tower-in-flight-limit ----
    max,        \* Shared.max
    curr,       \* Shared.curr (AtomicUsize)
    task,       \* Shared.task (AtomicTask): the registered task, or NoTask
    inst,       \* life of each InFlightLimit instance: "unborn"|"live"|"dropped"
    reserved,   \* State.reserved of each instance
    fut,        \* the ResponseFutures: life, inner (Some/None) and their history
    pc,         \* position of each task inside the operation it is running
    loc,        \* locals of the running operation: cur, prev, the future f, out
    lastPR,     \* how the poll_ready last run on an instance (with no call
                \* since) ended: "none", "full"
                \* (NotReady from the gate), "reserved" (it made the reservation)
                \* or "delegated" (the flag was set already); the last two
                \* return what self.inner.poll_ready() returns
    woken,      \* tasks notified since their last poll_ready began
    \* ---- tower-rate-limit ----
    built,      \* how far construction got: "start" | "rate" | "layer" |
                \* "service" (a RateLimit exists) | "panicked"
    args,       \* the (num, per) handed to Rate::new / RateLimitLayer::new
    rate,       \* Rate { num, per }
    state,      \* RateLimit.state: Ready { until, rem } or Limited(sleep)
    now,        \* Instant::now()
    calls,      \* calls[t]: requests passed to the inner service at instant t
    ends,       \* every value `until` has taken, i.e. the window ends
    cnt,        \* requests passed to the inner service since state was last
                \* set by RateLimit::new or by poll_ready
    rlLast,     \* the last operation on the RateLimit and what it returned
    \* ---- tower-timeout ----
    tfut,       \* the timeout ResponseFuture: "none" | "pending" | "done"
    tinner,     \* ResponseFuture.inner, by what its poll returns:
                \* "pending" | "value" | "error"
    tsleep,     \* ResponseFuture.sleep
    tnow,       \* Instant::now()
    tres,       \* what the last poll of the ResponseFuture returned
    \* ---- tower-watch ----
    wvalue,     \* the value held by the watch cell
    wversion,   \* the cell's version: the number of values stored so far
    wclosed,    \* the Store has been dropped
    wver,       \* the version the Watch (subscriber) observed last
    inner,      \* WatchService.inner, by the value it was bound from
    binds,      \* how many times WatchService called bind
    wLast       \* the last operation on the WatchService and what it returned

gvars == <<max, curr, task, inst, reserved, fut, pc, loc, lastPR, woken>>
rvars == <<built, args, rate, state, now, calls, ends, cnt, rlLast>>
tvars == <<tfut, tinner, tsleep, tnow, tres>>
wvars == <<wvalue, wversion, wclosed, wver, inner, binds, wLast>>
vars == <<gvars, rvars, tvars, wvars>>

\* what an operation of one crate leaves alone: the other crates
notGate == <<rvars, tvars, wvars>>
notRate == <<gvars, tvars, wvars>>
notTimeout == <<gvars, rvars, wvars>>
notWatch == <<gvars, rvars, tvars>>

Inst == 1..NumInst
Futs == 1..MaxFut
NoTask == 0

NoLoc == [cur |-> 0, prev |-> 0, f |-> 0, out |-> "none"]

\* ResponseFuture { inner, shared } before it exists; `origin`, `rel` and `res`
\* record its history: how call built it, how many releases it made, and what its
\* last poll returned.
FreeFut == [life |-> "free", inner |-> "None", origin |-> "none", rel |-> 0, res |-> "none"]

\* the lowest unused future slot (0 when none is left)
NextFut == IF \E f \in Futs : fut[f].life = "free"
           THEN CHOOSE f \in Futs : fut[f].life = "free"
                                    /\ \A g \in Futs : fut[g].life = "free" => f <= g
           ELSE 0

(***************************************************************************)
(* InFlightLimit::new: curr = 0, no task registered, reserved = false.     *)
(***************************************************************************)
GateInit ==
    /\ max \in 0..MaxCap
    /\ curr = 0
    /\ task = NoTask
    /\ inst = [i \in Inst |-> IF i = 1 THEN "live" ELSE "unborn"]
    /\ reserved = [i \in Inst |-> FALSE]
    /\ fut = [f \in Futs |-> FreeFut]
    /\ pc = [i \in Inst |-> "idle"]
    /\ loc = [i \in Inst |-> NoLoc]
    /\ lastPR = [i \in Inst |-> "none"]
    /\ woken = [i \in Inst |-> FALSE]

(***************************************************************************)
(* Shared::reserve, one atomic access per step: the load, then the loop    *)
(* body (the test against max and the compare_and_swap).                   *)
(***************************************************************************)
\* (mutant) the test lets the counter pass max
AtCapacity_Above(c) == c > max

\* `if curr == self.max { return false; }`
AtCapacity(c) == c = max

\* outcome of one pass of the loop for a task holding the local value c:
\* "full" (return false), "won" (the CAS stored c + 1), "retry" (curr = actual)
CasOutcome(c) ==
    IF AtCapacity(c) THEN "full"
    ELSE IF curr = c THEN "won"
    ELSE "retry"

(***************************************************************************)
(* Shared::release: fetch_sub, then notify when the previous value was max.*)
(***************************************************************************)
\* (mutant) the test reads the value after the decrement
ShouldNotify_Post(prev) == prev - 1 = max

\* `if prev == self.max`
ShouldNotify(prev) == prev = max

\* (mutant) every release notifies
Notify_Always(prev) ==
    IF task # NoTask
    THEN /\ woken' = [woken EXCEPT ![task] = TRUE]
         /\ \E keep \in BOOLEAN : task' = IF keep THEN task ELSE NoTask
    ELSE UNCHANGED <<woken, task>>

\* self.task.notify(): the registered task is notified; whether the slot keeps
\* the task afterwards depends on the futures version, so both are allowed.
Notify(prev) ==
    IF ShouldNotify(prev) /\ task # NoTask
    THEN /\ woken' = [woken EXCEPT ![task] = TRUE]
         /\ \E keep \in BOOLEAN : task' = IF keep THEN task ELSE NoTask
    ELSE UNCHANGED <<woken, task>>

(***************************************************************************)
(* InFlightLimit::poll_ready                                               *)
(***************************************************************************)
\* (mutant) poll_ready ignores the reservation flag
PollReadyDelegates_Never(i) == FALSE

\* a reserved instance delegates to the inner service at once
PollReadyDelegates(i) == reserved[i]

\* (mutant) a registration is kept until it is notified
Registered_KeepFirst(i) == IF task = NoTask THEN i ELSE task

\* self.state.shared.task.register(): the slot holds the task registered last
Registered(i) == i

PollReadyStart(i) ==
    /\ inst[i] = "live" /\ pc[i] = "idle"
    /\ IF PollReadyDelegates(i)
       THEN \* return self.inner.poll_ready()
            /\ lastPR' = [lastPR EXCEPT ![i] = "delegated"]
            /\ woken' = [woken EXCEPT ![i] = FALSE]
            /\ UNCHANGED <<task, pc>>
       ELSE \* self.state.shared.task.register()
            /\ task' = Registered(i)
            /\ woken' = [woken EXCEPT ![i] = FALSE]
            /\ lastPR' = [lastPR EXCEPT ![i] = "none"]
            /\ pc' = [pc EXCEPT ![i] = "pr_load"]
    /\ UNCHANGED <<max, curr, inst, reserved, fut, loc>>
    /\ UNCHANGED notGate

\* reserve(): let mut curr = self.curr.load(SeqCst)
PollReadyLoad(i) ==
    /\ pc[i] = "pr_load"
    /\ loc' = [loc EXCEPT ![i].cur = curr]
    /\ pc' = [pc EXCEPT ![i] = "pr_cas"]
    /\ UNCHANGED <<max, curr, task, inst, reserved, fut, lastPR, woken>>
    /\ UNCHANGED notGate

PollReadyCas(i) ==
    /\ pc[i] = "pr_cas"
    /\ LET o == CasOutcome(loc[i].cur) IN
       CASE o = "full" ->
              \* return Ok(Async::NotReady)
              /\ lastPR' = [lastPR EXCEPT ![i] = "full"]
              /\ pc' = [pc EXCEPT ![i] = "idle"]
              /\ loc' = [loc EXCEPT ![i] = NoLoc]
              /\ UNCHANGED <<curr, reserved>>
         [] o = "won" ->
              \* self.state.reserved = true; self.inner.poll_ready()
              /\ curr' = curr + 1
              /\ reserved' = [reserved EXCEPT ![i] = TRUE]
              /\ lastPR' = [lastPR EXCEPT ![i] = "reserved"]
              /\ pc' = [pc EXCEPT ![i] = "idle"]
              /\ loc' = [loc EXCEPT ![i] = NoLoc]
         [] OTHER ->
              /\ loc' = [loc EXCEPT ![i].cur = curr]
              /\ UNCHANGED <<curr, reserved, lastPR, pc>>
    /\ UNCHANGED <<max, task, inst, fut, woken>>
    /\ UNCHANGED notGate

(***************************************************************************)
(* InFlightLimit::call                                                     *)
(***************************************************************************)
\* ResponseFuture { inner: Some(self.inner.call(request)), .. }
AdmittedFut == [life |-> "live", inner |-> "Some", origin |-> "admitted", rel |-> 0, res |-> "none"]
\* ResponseFuture { inner: None, .. }
RejectedFut == [life |-> "live", inner |-> "None", origin |-> "nocap", rel |-> 0, res |-> "none"]

\* a future slot is left for every call in progress and for this one
SlotLeft ==
    Cardinality({f \in Futs : fut[f].life = "free"})
        > Cardinality({j \in Inst : pc[j] = "call_cas"})

\* (mutant) call leaves the reservation flag set
ReservedAfterCall_Kept == TRUE

\* `if self.state.reserved { self.state.reserved = false; }`
ReservedAfterCall == FALSE

CallStart(i) ==
    /\ inst[i] = "live" /\ pc[i] = "idle"
    /\ SlotLeft
    /\ IF reserved[i]
       THEN /\ reserved' = [reserved EXCEPT ![i] = ReservedAfterCall]
            /\ fut' = [fut EXCEPT ![NextFut] = AdmittedFut]
            /\ UNCHANGED <<pc, loc>>
       ELSE \* reserve(): the load
            /\ loc' = [loc EXCEPT ![i].cur = curr]
            /\ pc' = [pc EXCEPT ![i] = "call_cas"]
            /\ UNCHANGED <<reserved, fut>>
    /\ lastPR' = [lastPR EXCEPT ![i] = "none"]
    /\ UNCHANGED <<max, curr, task, inst, woken>>
    /\ UNCHANGED notGate

CallCas(i) ==
    /\ pc[i] = "call_cas"
    /\ LET o == CasOutcome(loc[i].cur) IN
       CASE o = "full" ->
              /\ fut' = [fut EXCEPT ![NextFut] = RejectedFut]
              /\ pc' = [pc EXCEPT ![i] = "idle"]
              /\ loc' = [loc EXCEPT ![i] = NoLoc]
              /\ UNCHANGED curr
         [] o = "won" ->
              /\ curr' = curr + 1
              /\ fut' = [fut EXCEPT ![NextFut] = AdmittedFut]
              /\ pc' = [pc EXCEPT ![i] = "idle"]
              /\ loc' = [loc EXCEPT ![i] = NoLoc]
         [] OTHER ->
              /\ loc' = [loc EXCEPT ![i].cur = curr]
              /\ UNCHANGED <<curr, fut, pc>>
    /\ UNCHANGED <<max, task, inst, reserved, lastPR, woken>>
    /\ UNCHANGED notGate

(***************************************************************************)
(* ResponseFuture::poll.  The inner future's own poll is the environment:  *)
(* it may return NotReady, Ready or Err.                                   *)
(***************************************************************************)
\* no task is inside a poll of f
Unpolled(f) == \A j \in Inst : loc[j].f # f

\* (mutant) the resolved inner future is kept
InnerAfterResolve_Kept == "Some"

\* `self.inner = None` after the inner future resolved
InnerAfterResolve == "None"

FutPoll(i, f) ==
    /\ pc[i] = "idle"
    /\ fut[f].life = "live" /\ Unpolled(f)
    /\ IF fut[f].inner = "None"
       THEN \* None => Err(NoCapacityError.into()); self.inner = None
            /\ fut' = [fut EXCEPT ![f].res = "NoCapacity"]
            /\ UNCHANGED <<curr, pc, loc>>
       ELSE \E out \in {"NotReady", "Ready", "Err"} :
              IF out = "NotReady"
              THEN /\ fut' = [fut EXCEPT ![f].res = "NotReady"]
                   /\ UNCHANGED <<curr, pc, loc>>
              ELSE \* self.shared.release(): the fetch_sub
                   /\ curr' = curr - 1
                   /\ fut' = [fut EXCEPT ![f].rel = @ + 1]
                   /\ loc' = [loc EXCEPT ![i] = [cur |-> 0, prev |-> curr, f |-> f, out |-> out]]
                   /\ pc' = [pc EXCEPT ![i] = "poll_notify"]
    /\ UNCHANGED <<max, task, inst, reserved, lastPR, woken>>
    /\ UNCHANGED notGate

\* release(): the notify; then `self.inner = None; res`
FutPollNotify(i) ==
    /\ pc[i] = "poll_notify"
    /\ Notify(loc[i].prev)
    /\ fut' = [fut EXCEPT ![loc[i].f].inner = InnerAfterResolve,
                          ![loc[i].f].res = loc[i].out]
    /\ pc' = [pc EXCEPT ![i] = "idle"]
    /\ loc' = [loc EXCEPT ![i] = NoLoc]
    /\ UNCHANGED <<max, curr, inst, reserved, lastPR>>
    /\ UNCHANGED notGate

(***************************************************************************)
(* Drop for ResponseFuture                                                 *)
(***************************************************************************)
\* (mutant) drop releases without looking at inner
DropReleases_Always(f) == TRUE

\* `if self.inner.is_some()`
DropReleases(f) == fut[f].inner = "Some"

FutDrop(i, f) ==
    /\ pc[i] = "idle"
    /\ fut[f].life = "live" /\ Unpolled(f)
    /\ IF DropReleases(f)
       THEN /\ curr' = curr - 1
            /\ fut' = [fut EXCEPT ![f].life = "dropped", ![f].rel = @ + 1]
            /\ loc' = [loc EXCEPT ![i] = [cur |-> 0, prev |-> curr, f |-> 0, out |-> "none"]]
            /\ pc' = [pc EXCEPT ![i] = "drop_notify"]
       ELSE /\ fut' = [fut EXCEPT ![f].life = "dropped"]
            /\ UNCHANGED <<curr, pc, loc>>
    /\ UNCHANGED <<max, task, inst, reserved, lastPR, woken>>
    /\ UNCHANGED notGate

(***************************************************************************)
(* Drop for State (an InFlightLimit instance goes away)                    *)
(***************************************************************************)
StateDrop(i) ==
    /\ inst[i] = "live" /\ pc[i] = "idle"
    /\ inst' = [inst EXCEPT ![i] = "dropped"]
    /\ IF reserved[i]
       THEN /\ curr' = curr - 1
            /\ loc' = [loc EXCEPT ![i] = [cur |-> 0, prev |-> curr, f |-> 0, out |-> "none"]]
            /\ pc' = [pc EXCEPT ![i] = "drop_notify"]
       ELSE UNCHANGED <<curr, pc, loc>>
    /\ reserved' = [reserved EXCEPT ![i] = FALSE]
    /\ lastPR' = [lastPR EXCEPT ![i] = "none"]
    /\ UNCHANGED <<max, task, fut, woken>>
    /\ UNCHANGED notGate

\* the notify of a release made by either Drop
DropNotify(i) ==
    /\ pc[i] = "drop_notify"
    /\ Notify(loc[i].prev)
    /\ pc' = [pc EXCEPT ![i] = "idle"]
    /\ loc' = [loc EXCEPT ![i] = NoLoc]
    /\ UNCHANGED <<max, curr, inst, reserved, fut, lastPR>>
    /\ UNCHANGED notGate

(***************************************************************************)
(* Clone for State (through #[derive(Clone)] on InFlightLimit)             *)
(***************************************************************************)
\* (mutant) the clone copies the flag
CloneReserved_Copied(i) == reserved[i]

\* State { shared: self.shared.clone(), reserved: false }
CloneReserved(i) == FALSE

Clone(i, j) ==
    /\ inst[i] = "live" /\ pc[i] = "idle"
    /\ inst[j] = "unborn" /\ \A k \in Inst : inst[k] = "unborn" => j <= k
    /\ inst' = [inst EXCEPT ![j] = "live"]
    /\ reserved' = [reserved EXCEPT ![j] = CloneReserved(i)]
    /\ UNCHANGED <<max, curr, task, fut, pc, loc, lastPR, woken>>
    /\ UNCHANGED notGate

GateNext ==
    \/ \E i \in Inst : PollReadyStart(i)
    \/ \E i \in Inst : PollReadyLoad(i)
    \/ \E i \in Inst : PollReadyCas(i)
    \/ \E i \in Inst : CallStart(i)
    \/ \E i \in Inst : CallCas(i)
    \/ \E i \in Inst, f \in Futs : FutPoll(i, f)
    \/ \E i \in Inst : FutPollNotify(i)
    \/ \E i \in Inst, f \in Futs : FutDrop(i, f)
    \/ \E i \in Inst : StateDrop(i)
    \/ \E i \in Inst : DropNotify(i)
    \/ \E i, j \in Inst : Clone(i, j)

(***************************************************************************)
(* tower-rate-limit                                                        *)
(***************************************************************************)
NoRate == [num |-> 0, per |-> 0]
NoState == [tag |-> "None"]
Times == 0..MaxTime

RateInit ==
    /\ built = "start"
    /\ args = NoRate
    /\ rate = NoRate
    /\ state = NoState
    /\ now = 0
    /\ calls = [t \in Times |-> 0]
    /\ ends = {}
    /\ cnt = 0
    /\ rlLast = [op |-> "none", res |-> "none"]

\* (mutant) only the quota is asserted
RateValid_NumOnly(num, per) == num > 0

\* assert!(num > 0); assert!(per > Duration::from_millis(0));
RateValid(num, per) == num > 0 /\ per > 0

\* Rate::new(num, per), called directly
RateNew(num, per) ==
    /\ built = "start"
    /\ args' = [num |-> num, per |-> per]
    /\ IF RateValid(num, per)
       THEN built' = "rate" /\ rate' = [num |-> num, per |-> per]
       ELSE built' = "panicked" /\ UNCHANGED rate
    /\ UNCHANGED <<state, now, calls, ends, cnt, rlLast>>
    /\ UNCHANGED notRate

\* RateLimitLayer::new(num, per): let rate = Rate::new(num, per)
LayerNew(num, per) ==
    /\ built = "start"
    /\ args' = [num |-> num, per |-> per]
    /\ IF RateValid(num, per)
       THEN built' = "layer" /\ rate' = [num |-> num, per |-> per]
       ELSE built' = "panicked" /\ UNCHANGED rate
    /\ UNCHANGED <<state, now, calls, ends, cnt, rlLast>>
    /\ UNCHANGED notRate

\* RateLimit::new(inner, rate), called directly or by RateLimitLayer::layer
RateLimitNew ==
    /\ built \in {"rate", "layer"}
    /\ built' = "service"
    /\ state' = [tag |-> "Ready", until |-> now, rem |-> rate.num]
    /\ ends' = ends \cup {now}
    /\ cnt' = 0
    /\ UNCHANGED <<args, rate, now, calls, rlLast>>
    /\ UNCHANGED notRate

\* (mutant) the sleep is armed for the current instant, not for `until`
NewDelay_Now(deadline) == [deadline |-> now, fired |-> FALSE]

\* tokio_timer::Delay: armed for a deadline; the timer marks it fired at some
\* instant not before the deadline
NewDelay(deadline) == [deadline |-> deadline, fired |-> FALSE]

\* what Delay::poll can return: Ready once fired, NotReady before, or the
\* timer's own error at any time
DelayPoll(sleep) == {IF sleep.fired THEN "Ready" ELSE "NotReady", "Err"}

\* (mutant) the new window ends at once
FreshWindow_Now == [tag |-> "Ready", until |-> now, rem |-> rate.num]

\* the state poll_ready installs once the sleep has fired
FreshWindow == [tag |-> "Ready", until |-> now + rate.per, rem |-> rate.num]

\* RateLimit::poll_ready
RlPollReady ==
    /\ built = "service"
    /\ IF state.tag = "Ready"
       THEN /\ rlLast' = [op |-> "poll_ready", res |-> "Ready"]
            /\ UNCHANGED <<state, ends, cnt>>
       ELSE \E r \in DelayPoll(state.sleep) :
              CASE r = "NotReady" ->
                     /\ rlLast' = [op |-> "poll_ready", res |-> "NotReady"]
                     /\ UNCHANGED <<state, ends, cnt>>
                [] r = "Err" ->
                     \* .map_err(|_| RateLimitError)
                     /\ rlLast' = [op |-> "poll_ready", res |-> "RateLimitError"]
                     /\ UNCHANGED <<state, ends, cnt>>
                [] OTHER ->
                     /\ state' = FreshWindow
                     /\ ends' = ends \cup {FreshWindow.until}
                     /\ cnt' = 0
                     /\ rlLast' = [op |-> "poll_ready", res |-> "Ready"]
    /\ UNCHANGED <<built, args, rate, now, calls>>
    /\ UNCHANGED notRate

\* (mutant) the test is off by one
HasQuotaLeft_OffByOne(rem) == rem > 0

\* `if rem > 1`
HasQuotaLeft(rem) == rem > 1

\* (mutant) the window end is never moved
UntilAfterRoll_NoRoll(until) == until

\* the window end after `if now >= until { until = now + self.rate.per; .. }`
UntilAfterRoll(until) == IF now >= until THEN now + rate.per ELSE until

\* the `rem` tested by `if rem > 1`: inside the roll, `let rem = self.rate.num`
\* declares a new binding local to that block, so the test reads the value
\* taken from the state
RemAfterRoll(until, rem) == rem

\* the state call leaves behind when entered in Ready { until, rem }
StateAfterCall(until, rem) ==
    LET u == UntilAfterRoll(until)
        r == RemAfterRoll(until, rem)
    IN  IF HasQuotaLeft(r)
        THEN [tag |-> "Ready", until |-> u, rem |-> r - 1]
        ELSE [tag |-> "Limited", sleep |-> NewDelay(u)]

\* RateLimit::call
RlCall ==
    /\ built = "service"
    /\ IF state.tag = "Ready"
       THEN /\ state' = StateAfterCall(state.until, state.rem)
            /\ ends' = ends \cup {UntilAfterRoll(state.until)}
            /\ calls' = [calls EXCEPT ![now] = @ + 1]
            /\ cnt' = cnt + 1
            /\ rlLast' = [op |-> "call", res |-> "Some"]
       ELSE /\ rlLast' = [op |-> "call", res |-> "None"]
            /\ UNCHANGED <<state, ends, calls, cnt>>
    /\ UNCHANGED <<built, args, rate, now>>
    /\ UNCHANGED notRate

\* (mutant) a future with no inner future resolves like any other
FutureResult_Forward(slot, out) == out

\* ResponseFuture::poll: the inner future's outcome, or RateLimitError when
\* there is no inner future
FutureResult(slot, out) == IF slot = "Some" THEN out ELSE "RateLimitError"

\* a poll of the ResponseFuture the last call returned; the inner future may
\* return NotReady, Ready or an error
RlFutPoll ==
    /\ built = "service" /\ rlLast.op = "call"
    /\ \E out \in {"NotReady", "Ready", "InnerErr"} :
          rlLast' = [op |-> "poll", res |-> FutureResult(rlLast.res, out)]
    /\ UNCHANGED <<built, args, rate, state, now, calls, ends, cnt>>
    /\ UNCHANGED notRate

\* the clock advances
Tick ==
    /\ now < MaxTime
    /\ now' = now + 1
    /\ UNCHANGED <<built, args, rate, state, calls, ends, cnt, rlLast>>
    /\ UNCHANGED notRate

\* the timer fires the armed sleep, not before its deadline
TimerFire ==
    /\ built = "service" /\ state.tag = "Limited"
    /\ ~state.sleep.fired /\ now >= state.sleep.deadline
    /\ state' = [state EXCEPT !.sleep.fired = TRUE]
    /\ UNCHANGED <<built, args, rate, now, calls, ends, cnt, rlLast>>
    /\ UNCHANGED notRate

RateNext ==
    \/ \E num \in 0..MaxNum, per \in 0..MaxPer : RateNew(num, per)
    \/ \E num \in 0..MaxNum, per \in 0..MaxPer : LayerNew(num, per)
    \/ RateLimitNew
    \/ RlPollReady
    \/ RlCall
    \/ RlFutPoll
    \/ Tick
    \/ TimerFire

(***************************************************************************)
(* tower-timeout: the response future                                      *)
(***************************************************************************)
TimeoutInit ==
    /\ tfut = "none"
    /\ tinner = "pending"
    /\ tsleep = NewDelay(0)
    /\ tnow = 0
    /\ tres = "none"

\* ResponseFuture::new(inner, sleep)
ResponseFutureNew(sleep) ==
    /\ tfut' = "pending"
    /\ tinner' = "pending"
    /\ tsleep' = sleep
    /\ tres' = "none"

\* Timeout::call: the inner call's future paired with a sleep armed for
\* now + timeout
TimeoutCall(timeout) ==
    /\ tfut = "none"
    /\ ResponseFutureNew(NewDelay(tnow + timeout))
    /\ UNCHANGED tnow
    /\ UNCHANGED notTimeout

\* (mutant) the sleep is looked at before the inner future
PollResult_TimerFirst(i, t) ==
    IF t = "Err" THEN "TimerErr"
    ELSE IF t = "Ready" THEN "Elapsed"
    ELSE IF i = "value" THEN "Value"
    ELSE IF i = "error" THEN "InnerErr"
    ELSE "NotReady"

\* ResponseFuture::poll, given what self.inner.poll() (i) and self.sleep.poll()
\* (t) return; the sleep is polled only when the inner future is not ready
PollResult(i, t) ==
    IF i = "error" THEN "InnerErr"
    ELSE IF i = "value" THEN "Value"
    ELSE IF t = "Err" THEN "TimerErr"
    ELSE IF t = "NotReady" THEN "NotReady"
    ELSE "Elapsed"

TPoll ==
    /\ tfut = "pending"
    /\ \E t \in DelayPoll(tsleep) :
          /\ tres' = PollResult(tinner, t)
          /\ tfut' = IF tres' = "NotReady" THEN "pending" ELSE "done"
    /\ UNCHANGED <<tinner, tsleep, tnow>>
    /\ UNCHANGED notTimeout

\* the inner future becomes ready with a value or an error
TInnerResolve(r) ==
    /\ tfut = "pending" /\ tinner = "pending"
    /\ tinner' = r
    /\ UNCHANGED <<tfut, tsleep, tnow, tres>>
    /\ UNCHANGED notTimeout

TTick ==
    /\ tnow < MaxTime
    /\ tnow' = tnow + 1
    /\ UNCHANGED <<tfut, tinner, tsleep, tres>>
    /\ UNCHANGED notTimeout

\* the timer fires the sleep, not before its deadline
TTimerFire ==
    /\ tfut = "pending"
    /\ ~tsleep.fired /\ tnow >= tsleep.deadline
    /\ tsleep' = [tsleep EXCEPT !.fired = TRUE]
    /\ UNCHANGED <<tfut, tinner, tnow, tres>>
    /\ UNCHANGED notTimeout

TimeoutNext ==
    \/ \E timeout \in 0..MaxTimeout : TimeoutCall(timeout)
    \/ TPoll
    \/ \E r \in {"value", "error"} : TInnerResolve(r)
    \/ TTick
    \/ TTimerFire

(***************************************************************************)
(* tower-watch                                                             *)
(***************************************************************************)
Vals == 1..MaxVal

\* Watch::new(init) and WatchService::new(watch, bind): the service is bound
\* from the initial value.  Whether the subscriber counts the initial value as
\* already observed is the watch cell's choice; both are allowed.
WatchInit ==
    /\ wvalue \in Vals
    /\ wversion = 0
    /\ wclosed = FALSE
    /\ wver \in {-1, 0}
    /\ inner = wvalue
    /\ binds = 1
    /\ wLast = [op |-> "none", res |-> "none", val |-> 0]

\* Store::store(v)
WStore(v) ==
    /\ ~wclosed /\ wversion < MaxStores
    /\ wvalue' = v
    /\ wversion' = wversion + 1
    /\ UNCHANGED <<wclosed, wver, inner, binds, wLast>>
    /\ UNCHANGED notWatch

\* drop(store)
WDropStore ==
    /\ ~wclosed
    /\ wclosed' = TRUE
    /\ UNCHANGED <<wvalue, wversion, wver, inner, binds, wLast>>
    /\ UNCHANGED notWatch

\* Watch::poll (the subscriber's non-blocking poll): Some when there is a version
\* it has not observed, else None when the Store is gone, else NotReady
WatchPoll ==
    IF wver # wversion THEN "Some"
    ELSE IF wclosed THEN "None"
    ELSE "NotReady"

\* (mutant) poll_rebind binds the service it already has
BindTarget_Stale == inner

\* `let t = self.watch.borrow(); self.inner = self.bind.bind(&*t)`
BindTarget == wvalue

\* WatchService::poll_rebind, given what self.watch.poll() returns
PollRebind(w) ==
    IF w = "Err" THEN "Err"
    ELSE IF w = "Some" THEN "Ready"
    ELSE "NotReady"

\* (mutant) poll_ready returns early when poll_rebind is not ready
PollReadyResult_TryReady(rebind, r) ==
    IF rebind = "Err" THEN "WatchError"
    ELSE IF rebind = "NotReady" THEN "Suspended"
    ELSE r

\* `let _ = self.poll_rebind().map_err(..)?; self.inner.poll_ready()`: what
\* poll_ready returns, given poll_rebind's result and the inner service's
\* readiness r
PollReadyResult(rebind, r) == IF rebind = "Err" THEN "WatchError" ELSE r

\* WatchService::poll_ready; the inner service's poll_ready may return Ready,
\* NotReady or an error; `val` is the value the polled service was bound from
\* (0 when the inner service was not polled)
WPollReady ==
    /\ LET w == WatchPoll IN
         /\ IF w = "Some"
            THEN wver' = wversion /\ inner' = BindTarget /\ binds' = binds + 1
            ELSE UNCHANGED <<wver, inner, binds>>
         /\ \E r \in {"Ready", "NotReady", "InnerErr"} :
               wLast' = [op |-> "poll_ready",
                         res |-> PollReadyResult(PollRebind(w), r),
                         val |-> IF PollRebind(w) = "Err" THEN 0 ELSE inner']
    /\ UNCHANGED <<wvalue, wversion, wclosed>>
    /\ UNCHANGED notWatch

\* WatchService::call: ResponseFuture(self.inner.call(req)); `val` is the value
\* the called service was bound from
\* (mutant) call goes to a service bound from the current value
CallTarget_Latest == wvalue

\* `self.inner.call(req)`: the installed service
CallTarget == inner

WCall ==
    /\ wLast' = [op |-> "call", res |-> "Future", val |-> CallTarget]
    /\ UNCHANGED <<wvalue, wversion, wclosed, wver, inner, binds>>
    /\ UNCHANGED notWatch

WatchNext ==
    \/ \E v \in Vals : WStore(v)
    \/ WDropStore
    \/ WPollReady
    \/ WCall

\* the initial state of every crate; a specification that does not exercise
\* the gate or the watch fixes their parameters
Init == GateInit /\ RateInit /\ TimeoutInit /\ WatchInit
InitGate == Init /\ wvalue = 1 /\ wver = 0
InitRate == Init /\ max = 0 /\ wvalue = 1 /\ wver = 0
InitTimeout == Init /\ max = 0 /\ wvalue = 1 /\ wver = 0
InitWatch == Init /\ max = 0

SpecGate == InitGate /\ [][GateNext]_vars

SpecRate == InitRate /\ [][RateNext]_vars

SpecTimeout == InitTimeout /\ [][TimeoutNext]_vars

SpecWatch == InitWatch /\ [][WatchNext]_vars

(***************************************************************************)
(* Properties of the admission gate (checked under SpecGate)               *)
(***************************************************************************)
\* futures that reached the inner service and have neither resolved nor been dropped
Admitted == {f \in Futs : fut[f].life = "live" /\ fut[f].inner = "Some" /\ fut[f].rel = 0}

\* tasks between the fetch_sub and the notify of a release
Releasing == {j \in Inst : pc[j] \in {"poll_notify", "drop_notify"}}

\* C1: under every interleaving of poll_ready, call, future poll, future drop,
\* instance drop and clone, 0 <= curr <= max holds in every reachable state, no
\* release ever sees a previous value above max, and at most max requests are
\* admitted at the same time.
C1_CounterWithinMax ==
    /\ 0 <= curr /\ curr <= max
    /\ \A j \in Releasing : 1 <= loc[j].prev /\ loc[j].prev <= max
    /\ Cardinality(Admitted) <= max

\* the gate is full with max > 1 admitted requests and a contender was refused
C1_Witness ==
    /\ max > 1 /\ curr = max
    /\ Cardinality(Admitted) = max
    /\ \E i \in Inst : lastPR[i] = "full" /\ pc[i] = "idle"

\* C2: a future that wraps an inner future releases capacity exactly once: not
\* while it is unresolved (polls that return NotReady release nothing), once when
\* the inner future resolves with a value or an error or when it is dropped
\* unresolved, and never again when it is polled or dropped after that.
C2_ReleaseExactlyOnce ==
    \A f \in Futs : fut[f].origin = "admitted" =>
        /\ fut[f].rel <= 1
        /\ (fut[f].life = "live" /\ fut[f].inner = "Some" /\ Unpolled(f)) => fut[f].rel = 0
        /\ (fut[f].inner = "None" \/ fut[f].life = "dropped") => fut[f].rel = 1
        /\ fut[f].res = "NotReady" => (fut[f].rel = 1 <=> fut[f].life = "dropped" \/ ~Unpolled(f))
        /\ fut[f].res \in {"Ready", "Err", "NoCapacity"} => fut[f].rel = 1

\* one future resolved, was polled again and dropped; another was polled, found
\* not ready, and dropped unresolved: each released once
C2_Witness ==
    \E f, g \in Futs :
        /\ fut[f].origin = "admitted" /\ fut[f].res = "NoCapacity"
        /\ fut[f].life = "dropped" /\ fut[f].rel = 1
        /\ fut[g].origin = "admitted" /\ fut[g].res = "NotReady"
        /\ fut[g].life = "dropped" /\ fut[g].rel = 1
        /\ Releasing = {}

\* a task whose poll_ready returned NotReady from the gate, that is still the
\* registered task and has not been notified
Parked(i) ==
    /\ inst[i] = "live" /\ pc[i] = "idle"
    /\ lastPR[i] = "full" /\ ~woken[i] /\ task = i

C3_NoLostWakeInv ==
    \A i \in Inst : Parked(i) =>
        \/ curr = max
        \/ \E j \in Releasing : loc[j].prev = max

C3_ReserveWhenFree ==
    \A i \in Inst :
        (PollReadyCas(i) /\ loc[i].cur = curr /\ curr < max)
            => (reserved'[i] /\ curr' = curr + 1 /\ lastPR'[i] = "reserved")

\* C3: a contender suspended on a full gate is never left without its wake: while
\* it is the registered task and has not been notified the gate is still full, or
\* the release that freed the slot is about to notify it, whatever the
\* interleaving of its register and reserve steps with the release; and a
\* poll_ready whose compare-and-swap meets the value it loaded below max (no other
\* contender took the slot) obtains the reservation.
C3_NoLostWake == []C3_NoLostWakeInv /\ [][C3_ReserveWhenFree]_vars

\* max = 1: B was refused while A held the slot, A's future resolved, and B has
\* been notified with the slot free
C3_Witness ==
    /\ max = 1 /\ curr = 0 /\ Releasing = {}
    /\ \E i \in Inst : inst[i] = "live" /\ lastPR[i] = "full" /\ woken[i] /\ pc[i] = "idle"
    /\ \E f \in Futs : fut[f].origin = "admitted" /\ fut[f].res \in {"Ready", "Err"}

C4_PollReadyStep(i) == PollReadyStart(i) \/ PollReadyLoad(i) \/ PollReadyCas(i)

\* C4: poll_ready on an instance whose reservation flag is set only delegates: it
\* leaves curr and the flag unchanged; poll_ready on an instance without the flag
\* raises curr by at most one, and only while setting the flag.  So repeated
\* poll_ready calls with no call in between raise curr by at most one in total.
C4_NoDoubleReserve ==
    [][\A i \in Inst : C4_PollReadyStep(i) =>
          IF reserved[i]
          THEN curr' = curr /\ reserved'[i] /\ pc'[i] = "idle" /\ lastPR'[i] = "delegated"
          ELSE \/ curr' = curr /\ ~reserved'[i]
               \/ curr' = curr + 1 /\ reserved'[i]]_vars

\* an instance reserved, was polled again, and the counter is still one
C4_Witness ==
    /\ max > 1 /\ curr = 1
    /\ \E i \in Inst : reserved[i] /\ lastPR[i] = "delegated" /\ inst[i] = "live"
    /\ \A f \in Futs : fut[f].life = "free"
    /\ \A i \in Inst : pc[i] = "idle"

AdmittedEver == {f \in Futs : fut[f].origin = "admitted"}

C5_RejectedInert ==
    \A f \in Futs : fut[f].origin = "nocap" =>
        fut[f].inner = "None" /\ fut[f].rel = 0 /\ fut[f].res \in {"none", "NoCapacity"}

C5_CallAtCapacity ==
    \A i \in Inst :
        /\ (CallStart(i) /\ ~reserved[i] /\ curr = max)
              => (curr' = curr /\ fut' = fut /\ pc'[i] = "call_cas" /\ loc'[i].cur = max)
        /\ (CallCas(i) /\ loc[i].cur = max)
              => /\ curr' = curr /\ reserved' = reserved
                 /\ pc'[i] = "idle"
                 /\ fut' = [fut EXCEPT ![NextFut] = RejectedFut]
        /\ \A f \in Futs :
              ((FutPoll(i, f) \/ FutDrop(i, f)) /\ fut[f].origin = "nocap")
                 => (curr' = curr /\ pc'[i] = "idle")

\* C5: a call on an instance without a reservation that finds curr = max returns
\* a future with no inner future: the inner service is not called and curr is
\* unchanged; that future resolves to NoCapacity, and neither polling nor dropping
\* it releases capacity.
C5_NoCapacity == []C5_RejectedInert /\ [][C5_CallAtCapacity]_vars

\* a call was refused on a full gate; its future was polled (NoCapacity) and
\* dropped, and the gate is still full
C5_Witness ==
    /\ max > 0 /\ curr = max /\ Releasing = {}
    /\ \E f \in Futs : /\ fut[f].origin = "nocap" /\ fut[f].res = "NoCapacity"
                        /\ fut[f].life = "dropped" /\ fut[f].rel = 0

(***************************************************************************)
(* Properties of the rate limiter (checked under SpecRate)                 *)
(***************************************************************************)
RECURSIVE CallsBefore(_)
\* requests passed to the inner service at the instants 0 .. t-1
CallsBefore(t) == IF t <= 0 THEN 0 ELSE calls[t - 1] + CallsBefore(t - 1)

Cap(t) == IF t < 0 THEN 0 ELSE IF t > MaxTime + 1 THEN MaxTime + 1 ELSE t

\* requests passed to the inner service at the instants a <= t < b
CallsIn(a, b) == CallsBefore(Cap(b)) - CallsBefore(Cap(a))

\* the end of the current window
LastEnd == CHOOSE u \in ends : \A v \in ends : v <= u

C6_Counts ==
    built = "service" =>
        /\ state.tag = "Ready" => (cnt < rate.num /\ state.rem = rate.num - cnt)
        /\ state.tag = "Limited" => (cnt = rate.num /\ state.sleep.deadline = LastEnd)

\* poll_ready and call seen by a caller that checks readiness before each call;
\* `suspended` is what poll_ready may return before the window end
C6_Steps(suspended) ==
    /\ (RlPollReady /\ state.tag = "Ready")
          => (rlLast'.res = "Ready" /\ state' = state)
    /\ (RlCall /\ state.tag = "Ready")
          => (rlLast'.res = "Some" /\ cnt' = cnt + 1 /\ calls'[now] = calls[now] + 1)
    /\ (RlPollReady /\ state.tag = "Limited" /\ now < state.sleep.deadline)
          => (rlLast'.res \in suspended /\ state' = state)
    /\ (RlPollReady /\ state.tag = "Limited" /\ rlLast'.res = "Ready")
          => /\ now >= state.sleep.deadline
             /\ state' = [tag |-> "Ready", until |-> now + rate.per, rem |-> rate.num]
             /\ cnt' = 0

\* C6 as stated: the first Q calls after construction find poll_ready Ready and
\* reach the inner service; then poll_ready returns NotReady (Suspended) until the
\* window end; once it returns Ready again exactly Q more calls are passed on
\* before the limiter is Limited again.
C6_AsStated == []C6_Counts /\ [][C6_Steps({"NotReady"})]_vars

\* C6 (amended): as stated, except that before the window end poll_ready returns
\* NotReady or, when the cooldown timer itself reports an error, fails with
\* RateLimitError; it never returns Ready before the window end.
C6_QuotaPerReset == []C6_Counts /\ [][C6_Steps({"NotReady", "RateLimitError"})]_vars

\* with quota 2: two calls, a cooldown, two more calls, and poll_ready is
\* suspended again
C6_Witness ==
    /\ built = "service" /\ rate.num = 2
    /\ state.tag = "Limited" /\ cnt = 2
    /\ CallsBefore(MaxTime + 1) = 4
    /\ rlLast = [op |-> "poll_ready", res |-> "NotReady"]

\* C7: whatever the sequence of poll_ready and call (callers that skip
\* poll_ready included) and however time advances, the requests passed to the
\* inner service at instants inside one window [until - per, until) number at
\* most rate.num, for every value `until` takes.
C7_AtMostQuotaPerWindow ==
    built = "service" =>
        \A u \in ends : CallsIn(u - rate.per, u) <= rate.num

\* a window was filled to the quota (2 or more) and a further call, made
\* without poll_ready, was turned away
C7_Witness ==
    /\ built = "service" /\ rate.num >= 2
    /\ \E u \in ends : CallsIn(u - rate.per, u) = rate.num
    /\ rlLast = [op |-> "call", res |-> "None"]

\* C8: Rate::new, called directly or by RateLimitLayer::new, panics exactly when
\* num = 0 or per = 0; a Rate that exists carries the arguments unchanged, both
\* positive, and so does every RateLimit.
C8_NoZeroRate ==
    /\ built = "panicked" <=> (built # "start" /\ (args.num = 0 \/ args.per = 0))
    /\ built \in {"rate", "layer", "service"} =>
          (rate = args /\ rate.num > 0 /\ rate.per > 0)
    /\ built \in {"start", "panicked"} => (rate = NoRate /\ state = NoState)

\* construction with a positive quota and a zero window panicked
C8_Witness == built = "panicked" /\ args.num > 0 /\ args.per = 0

(***************************************************************************)
(* tower-timeout: claims                                                   *)
(***************************************************************************)
\* `timerFailed` is what a poll may return, besides Elapsed and NotReady, when
\* the inner future is not ready
C9_Steps(timerFailed) ==
    TPoll =>
        /\ tinner = "value" => tres' = "Value"
        /\ tinner = "error" => tres' = "InnerErr"
        /\ tinner = "pending" =>
              \/ tres' \in timerFailed
              \/ tsleep.fired /\ tres' = "Elapsed"
              \/ ~tsleep.fired /\ tres' = "NotReady"
        /\ tres' = "Elapsed" =>
              (tinner = "pending" /\ tsleep.fired /\ tnow >= tsleep.deadline)

\* Elapsed is never produced before the deadline
C9_NotBeforeDeadline == tres = "Elapsed" => tnow >= tsleep.deadline

\* C9 as stated: every poll looks at the inner future first and returns its
\* value or error when it is ready, even if the sleep has fired; Elapsed is
\* returned only when the inner future is not ready and the sleep has fired,
\* never before the deadline; otherwise the poll returns NotReady (Suspended).
C9_AsStated == []C9_NotBeforeDeadline /\ [][C9_Steps({})]_vars

\* C9 (amended): as stated, except that a poll that finds the inner future not
\* ready may also fail with the timer's own error; only when the timer reports
\* no error is the result Elapsed (sleep fired) or NotReady (sleep not fired).
C9_InnerFirst == []C9_NotBeforeDeadline /\ [][C9_Steps({"TimerErr"})]_vars

\* the inner future's value was returned by a poll made after the sleep fired
C9_Witness ==
    /\ tfut = "done" /\ tres = "Value"
    /\ tsleep.fired /\ tnow >= tsleep.deadline

(***************************************************************************)
(* tower-watch: claims                                                     *)
(***************************************************************************)
C10_Steps ==
    /\ WPollReady =>
          /\ inner' = wvalue
          /\ wver' = wversion
          /\ binds' = IF wver = wversion THEN binds ELSE binds + 1
          /\ wLast'.res \in {"Ready", "NotReady", "InnerErr"}
    /\ WCall => (inner' = inner /\ wLast'.val = inner)
    /\ (wclosed /\ inner = wvalue) =>
          /\ wclosed' /\ wvalue' = wvalue /\ inner' = inner
          /\ wLast'.res # "WatchError"
          /\ WCall => wLast'.val = wvalue

C11_RollResetsRem ==
    [][(RlCall /\ state.tag = "Ready" /\ now >= state.until /\ rate.num > 1)
          => state' = [tag |-> "Ready", until |-> now + rate.per,
                       rem |-> rate.num - 1]]_vars

\* the window end in force when a call entered in Ready consumes its unit
C12_WindowEnd == IF now >= state.until THEN now + rate.per ELSE state.until

\* C12: every call entered in Ready passes the request to the inner service;
\* when rem is 1 at that point (read from the state, or reset to a quota of 1
\* by the roll) the call leaves the state Limited with a sleep armed for the
\* window end in force.
C12_LastUnitArmsTimer ==
    [][(RlCall /\ state.tag = "Ready")
          => /\ rlLast'.res = "Some"
             /\ calls'[now] = calls[now] + 1
             /\ (state.rem = 1 \/ (now >= state.until /\ rate.num = 1))
                   => state' = [tag |-> "Limited",
                                sleep |-> [deadline |-> C12_WindowEnd,
                                           fired |-> FALSE]]]_vars

\* the last unit of a window entered earlier was consumed: the sleep is armed
\* for that window's end, which lies ahead
C12_Witness ==
    /\ built = "service" /\ rate.num = 2 /\ rate.per = 2
    /\ rlLast = [op |-> "call", res |-> "Some"]
    /\ state.tag = "Limited" /\ ~state.sleep.fired
    /\ state.sleep.deadline = now + 1

\* C13: a call made in Limited returns a future that resolves to
\* RateLimitError, passes nothing to the inner service and leaves the state
\* Limited with the same sleep; only poll_ready leaves Limited.
C13_LimitedCallRejected ==
    [][/\ (RlCall /\ state.tag = "Limited")
            => (rlLast'.res = "None" /\ calls' = calls /\ cnt' = cnt
                /\ state' = state)
       /\ (RlFutPoll /\ rlLast.res = "None")
            => (rlLast'.res = "RateLimitError" /\ calls' = calls
                /\ state' = state)
       /\ (state.tag = "Limited" /\ state'.tag # "Limited") => RlPollReady]_vars

\* the future returned by a call in Limited was polled, before the window end
C13_Witness ==
    /\ built = "service" /\ state.tag = "Limited"
    /\ now < state.sleep.deadline
    /\ rlLast = [op |-> "poll", res |-> "RateLimitError"]

\* `failed` is what poll_ready may return in Limited besides NotReady and Ready
C14_Steps(failed) ==
    RlPollReady =>
        /\ state.tag = "Ready" => (rlLast'.res = "Ready" /\ state' = state)
        /\ (state.tag = "Limited" /\ ~state.sleep.fired)
              => (rlLast'.res \in {"NotReady"} \cup failed /\ state' = state)
        /\ (state.tag = "Limited" /\ state.sleep.fired)
              => \/ /\ rlLast'.res = "Ready"
                    /\ state' = [tag |-> "Ready", until |-> now + rate.per,
                                 rem |-> rate.num]
                 \/ rlLast'.res \in failed /\ state' = state

\* C14 as stated: poll_ready in Ready returns Ready and leaves the state alone;
\* in Limited it returns NotReady and leaves the state alone while the sleep has
\* not fired, and on the first poll_ready after it fired it sets
\* Ready { until = now + per, rem = num } and returns Ready.
C14_AsStated == [][C14_Steps({})]_vars

\* C14 (amended): as stated, except that in Limited poll_ready fails with
\* RateLimitError and leaves the state alone when the sleep itself reports an
\* error, before or after it fired.
C14_PollReady == [][C14_Steps({"RateLimitError"})]_vars

\* poll_ready found the sleep fired after the window end and opened a window
C14_Witness ==
    /\ built = "service" /\ rate.num = 2
    /\ rlLast = [op |-> "poll_ready", res |-> "Ready"]
    /\ state = [tag |-> "Ready", until |-> now + rate.per, rem |-> 2]
    /\ cnt = 0 /\ CallsBefore(MaxTime + 1) = 2

(***************************************************************************)
(* tower-in-flight-limit: release, the waiter slot, drop and clone         *)
(***************************************************************************)
\* the fetch_sub of a release, made by task i
Decrement(i) ==
    \/ \E f \in Futs : FutPoll(i, f) /\ pc'[i] = "poll_notify"
    \/ \E f \in Futs : FutDrop(i, f) /\ pc'[i] = "drop_notify"
    \/ StateDrop(i) /\ pc'[i] = "drop_notify"

\* the rest of that release
NotifyStep(i) == FutPollNotify(i) \/ DropNotify(i)

C15_Steps ==
    \A i \in Inst :
        /\ Decrement(i) =>
              /\ curr' = curr - 1 /\ loc'[i].prev = curr
              /\ woken' = woken /\ task' = task
        /\ NotifyStep(i) =>
              /\ curr' = curr
              /\ loc[i].prev # max => (woken' = woken /\ task' = task)
              /\ (loc[i].prev = max /\ task # NoTask) => woken'[task]
        /\ (pc[i] \in {"poll_notify", "drop_notify"} /\ loc[i].prev = max
              /\ curr' > curr)
              => \E j \in Inst \ {i} : PollReadyCas(j) \/ CallCas(j)

\* C15: release decrements curr first and notifies the registered task only in
\* a later step, and only when the value before the decrement was max; between
\* the two, curr is below max unless another contender reserved (nothing else
\* raises it); a release whose previous value was below max notifies nobody.
C15_ReleaseThenWake ==
    /\ [](\A j \in Releasing : loc[j].prev = max =>
              (curr < max \/ Cardinality(Admitted)
                              + Cardinality({i \in Inst : reserved[i]}) = max))
    /\ [][C15_Steps]_vars

\* a release from the full state has decremented curr and has not yet notified
\* the refused task registered in the slot
C15_Witness ==
    /\ max > 0 /\ curr = max - 1 /\ task # NoTask
    /\ \E j \in Releasing : loc[j].prev = max /\ j # task
    /\ lastPR[task] = "full" /\ ~woken[task] /\ pc[task] = "idle"

\* C16: the shared state keeps one registration: poll_ready on an instance
\* without a reservation puts its own task in the slot, replacing the one there,
\* and a release notifies no task but the one in the slot, and only when its
\* previous value was max; a task refused earlier whose registration was
\* replaced gets no wake from that release.
C16_SingleWaiterSlot ==
    [][/\ \A i \in Inst : (PollReadyStart(i) /\ ~reserved[i]) => task' = i
       /\ \A k \in Inst : (woken'[k] /\ ~woken[k]) =>
             /\ k = task
             /\ \E j \in Releasing : NotifyStep(j) /\ loc[j].prev = max]_vars

\* both instances were refused on a full gate; a release from the full state
\* has completed and notified one of them only
C16_Witness ==
    /\ max > 0 /\ curr = max - 1 /\ Releasing = {}
    /\ \A i \in Inst : inst[i] = "live" /\ lastPR[i] = "full" /\ pc[i] = "idle"
    /\ woken[2] /\ ~woken[1]

\* C19: dropping an instance releases one unit when its reservation flag is set
\* and none when it is clear; a clone starts with the flag clear, leaves the
\* original's flag and curr as they are, so a reserved instance and its clone,
\* both dropped, release once.
C19_DropReleasesReservation ==
    [][\A i \in Inst :
          /\ StateDrop(i) =>
                /\ curr' = IF reserved[i] THEN curr - 1 ELSE curr
                /\ reserved[i] <=> pc'[i] = "drop_notify"
                /\ ~reserved'[i]
          /\ \A j \in Inst : Clone(i, j) =>
                (~reserved'[j] /\ reserved'[i] = reserved[i] /\ curr' = curr)]_vars

\* max = 1, no call was ever made: the instance holding the only reservation is
\* being dropped after its clone was dropped, and curr is back to 0
C19_Witness ==
    /\ max = 1 /\ curr = 0
    /\ \A f \in Futs : fut[f].life = "free"
    /\ inst[1] = "dropped" /\ pc[1] = "drop_notify" /\ loc[1].prev = 1
    /\ inst[2] = "dropped" /\ pc[2] = "idle"

\* no operation is in progress
Quiescent == \A i \in Inst : pc[i] = "idle"

\* C20: in every quiescent state curr equals the number of live instances whose
\* reservation flag is set plus the number of live futures that still hold an
\* inner future.
C20_CounterAccounting ==
    Quiescent =>
        curr = Cardinality({i \in Inst : inst[i] = "live" /\ reserved[i]})
             + Cardinality({f \in Futs : fut[f].life = "live" /\ fut[f].inner = "Some"})

\* quiescent with one reservation not yet consumed, one unresolved future and a
\* dropped clone
C20_Witness ==
    /\ Quiescent /\ curr = 2
    /\ \E i \in Inst : inst[i] = "live" /\ reserved[i]
    /\ \E i \in Inst : inst[i] = "dropped"
    /\ \E f \in Futs : fut[f].life = "live" /\ fut[f].inner = "Some"
    /\ \E f \in Futs : fut[f].life = "dropped" /\ fut[f].rel = 1

(***************************************************************************)
(* tower-watch: call and poll_ready step by step                           *)
(***************************************************************************)
\* C17: call leaves the installed service and the version the Watch has
\* observed as they are and goes to the installed service; no step but
\* poll_ready changes either, so a caller that never calls poll_ready keeps
\* using the service bound from the initial value, whatever is stored.
C17_CallNeverRebinds ==
    /\ [](binds = 1 => wver \in {-1, 0})
    /\ [][/\ WCall => (/\ inner' = inner /\ wver' = wver /\ binds' = binds
                       /\ wLast'.val = inner)
          /\ (inner' # inner \/ wver' # wver \/ binds' # binds)
                => WPollReady]_vars

\* two values were stored, poll_ready was never called, and a call went to the
\* service bound at construction, not to one bound from the current value
C17_Witness ==
    /\ wversion >= 2 /\ binds = 1 /\ wver # wversion
    /\ inner # wvalue
    /\ wLast = [op |-> "call", res |-> "Future", val |-> inner]

====
